---------------------------- MODULE Spec2Model ----------------------------
(***************************************************************************)
(* Model of assets/resource.py (concourse-http-api-resource): the          *)
(* FileReference resolver, HTTPResource._interpolate,                      *)
(* HTTPResource._inject_file_contents, HTTPResource.cmd and                *)
(* HTTPResource.run.                                                       *)
(*                                                                         *)
(* Python strings are sequences of one-character strings, so that          *)
(* str.format, str.strip, os.path.normpath, os.path.join and               *)
(* os.path.commonpath are computed character by character as CPython       *)
(* computes them.  JSON values (the parameter tree) are records with a tag *)
(* t in {"str","num","bool","null","list","dict"}; a raised exception is   *)
(* the record tagged "raise".                                              *)
(***************************************************************************)
EXTENDS Integers, Sequences, FiniteSets, TLC

VARIABLES
    pc,            \* position inside run(): the next step to execute
    stdin,         \* the parsed JSON payload (json.loads(json_data))
    environ,       \* os.environ, a sequence of <<name, value>> pairs
    resource_dir,  \* command_argument[0], the bounding path
    params,        \* source overridden by params (run, lines 165-166)
    values,        \* the value mapping for interpolation (lines 162-169)
    interpolated,  \* rendered_params as line 172 leaves it
    rendered,      \* rendered_params as line 175 leaves it
    requests,      \* the HTTP requests issued so far (requests.request calls)
    response,      \* the response received: <<>> or <<[status_code, text]>>
    returned,      \* what cmd returned: <<>> or <<[status_code, text]>>
    stdout,        \* what was printed: <<>> or <<output object>>
    exit,          \* process exit status: -1 while running, 0, or 1
    raised         \* the exception that ended the run: <<>> or <<[at, exc]>>

vars == <<pc, stdin, environ, resource_dir, params, values, interpolated,
          rendered, requests, response, returned, stdout, exit, raised>>

(***************************************************************************)
(* Python values                                                           *)
(***************************************************************************)
Tree(t, s, n, xs, exc) == [t |-> t, s |-> s, n |-> n, xs |-> xs, exc |-> exc]
Str(s)     == Tree("str", s, 0, <<>>, "")
Num(n)     == Tree("num", <<>>, n, <<>>, "")
Bool(b)    == Tree("bool", <<>>, IF b THEN 1 ELSE 0, <<>>, "")
Null       == Tree("null", <<>>, 0, <<>>, "")
List(xs)   == Tree("list", <<>>, 0, xs, "")
\* a dict is its items in insertion order, each <<key, value>>, keys unique
Dict(kv)   == Tree("dict", <<>>, 0, kv, "")
Raise(exc) == Tree("raise", <<>>, 0, <<>>, exc)

IsRaise(v) == v.t = "raise"

\* dict.get(key, default) on a sequence of items
HasKey(kv, key) == \E i \in 1..Len(kv) : kv[i][1] = key
Get(kv, key, default) ==
    IF HasKey(kv, key)
    THEN kv[CHOOSE i \in 1..Len(kv) : kv[i][1] = key][2]
    ELSE default

\* d[key] = value: an existing key keeps its position, a new one is appended
SetItem(kv, key, value) ==
    IF HasKey(kv, key)
    THEN [i \in 1..Len(kv) |-> IF kv[i][1] = key THEN <<key, value>> ELSE kv[i]]
    ELSE Append(kv, <<key, value>>)

\* d.update(other)
RECURSIVE Update(_, _)
Update(kv, other) ==
    IF other = <<>> THEN kv
    ELSE Update(SetItem(kv, Head(other)[1], Head(other)[2]), Tail(other))

\* the first raised exception of a sequence of results, in evaluation order
FirstRaise(rs) == rs[CHOOSE i \in 1..Len(rs) :
                        IsRaise(rs[i]) /\ \A j \in 1..(i-1) : ~IsRaise(rs[j])]
AnyRaise(rs) == \E i \in 1..Len(rs) : IsRaise(rs[i])

(***************************************************************************)
(* str methods                                                             *)
(***************************************************************************)
startswith(s, prefix) ==
    /\ Len(s) >= Len(prefix)
    /\ SubSeq(s, 1, Len(prefix)) = prefix

\* s[n:]
From(s, n) == SubSeq(s, n + 1, Len(s))

Whitespace == {" ", "\n", "\t", "\r"}

RECURSIVE lstrip(_)
lstrip(s) == IF s # <<>> /\ Head(s) \in Whitespace THEN lstrip(Tail(s)) ELSE s

RECURSIVE rstrip(_)
rstrip(s) ==
    IF s # <<>> /\ s[Len(s)] \in Whitespace
    THEN rstrip(SubSeq(s, 1, Len(s) - 1)) ELSE s

strip(s) == rstrip(lstrip(s))

\* s.split(sep) for a one-character sep: always at least one component
RECURSIVE split(_, _)
split(s, sep) ==
    IF \E i \in 1..Len(s) : s[i] = sep
    THEN LET i == CHOOSE k \in 1..Len(s) :
                      s[k] = sep /\ \A j \in 1..(k-1) : s[j] # sep
         IN  <<SubSeq(s, 1, i - 1)>> \o split(From(s, i), sep)
    ELSE <<s>>

\* sep.join(parts)
RECURSIVE joinstr(_, _)
joinstr(sep, parts) ==
    IF parts = <<>> THEN <<>>
    ELSE IF Len(parts) = 1 THEN parts[1]
    ELSE parts[1] \o sep \o joinstr(sep, Tail(parts))

RECURSIVE Concat(_)
Concat(parts) == IF parts = <<>> THEN <<>> ELSE Head(parts) \o Concat(Tail(parts))

(***************************************************************************)
(* os.path (posixpath)                                                     *)
(***************************************************************************)
sep == "/"
curdir == <<".">>
pardir == <<".", ".">>

\* posixpath.join(a, b)
join(a, b) ==
    IF startswith(b, <<sep>>) THEN b
    ELSE IF a = <<>> \/ a[Len(a)] = sep THEN a \o b
    ELSE a \o <<sep>> \o b

\* the loop of posixpath.normpath over the components
RECURSIVE normcomps(_, _, _)
normcomps(comps, new_comps, initial_slashes) ==
    IF comps = <<>> THEN new_comps
    ELSE LET comp == Head(comps)
             rest == Tail(comps)
         IN  IF comp = <<>> \/ comp = curdir
             THEN normcomps(rest, new_comps, initial_slashes)
             ELSE IF \/ comp # pardir
                     \/ (initial_slashes = 0 /\ new_comps = <<>>)
                     \/ (new_comps # <<>> /\ new_comps[Len(new_comps)] = pardir)
             THEN normcomps(rest, Append(new_comps, comp), initial_slashes)
             ELSE IF new_comps # <<>>
             THEN normcomps(rest, SubSeq(new_comps, 1, Len(new_comps) - 1),
                            initial_slashes)
             ELSE normcomps(rest, new_comps, initial_slashes)

\* posixpath.normpath(path)
normpath(path) ==
    IF path = <<>> THEN curdir
    ELSE LET initial_slashes ==
                 IF ~startswith(path, <<sep>>) THEN 0
                 ELSE IF startswith(path, <<sep, sep>>)
                         /\ ~startswith(path, <<sep, sep, sep>>) THEN 2
                 ELSE 1
             comps == normcomps(split(path, sep), <<>>, initial_slashes)
             joined == joinstr(<<sep>>, comps)
             out == IF initial_slashes = 2 THEN <<sep, sep>> \o joined
                    ELSE IF initial_slashes = 1 THEN <<sep>> \o joined
                    ELSE joined
         IN  IF out = <<>> THEN curdir ELSE out

\* the components commonpath compares: empty and "." components dropped
pathcomps(path) ==
    SelectSeq(split(path, sep), LAMBDA c : c # <<>> /\ c # curdir)

\* the longest common prefix of two component lists
RECURSIVE commonprefix(_, _)
commonprefix(s1, s2) ==
    IF s1 # <<>> /\ s2 # <<>> /\ Head(s1) = Head(s2)
    THEN <<Head(s1)>> \o commonprefix(Tail(s1), Tail(s2))
    ELSE <<>>

\* posixpath.commonpath([p1, p2]): Str(...) or Raise("ValueError")
commonpath(p1, p2) ==
    IF startswith(p1, <<sep>>) # startswith(p2, <<sep>>)
    THEN Raise("ValueError")
    ELSE LET common == commonprefix(pathcomps(p1), pathcomps(p2))
             prefix == IF startswith(p1, <<sep>>) THEN <<sep>> ELSE <<>>
         IN  Str(prefix \o joinstr(<<sep>>, common))

(***************************************************************************)
(* The filesystem the process runs in.  A canonical path is its sequence   *)
(* of component names from the root.  There are no symbolic links.         *)
(*   /f  /a/f  /a/a/f  /a/a/a/f  are regular files; the working directory  *)
(*   is /a/a.                                                              *)
(***************************************************************************)
a == <<"a">>
f == <<"f">>
Dirs  == { <<>>, <<a>>, <<a, a>>, <<a, a, a>> }
Files == { <<f>>, <<a, f>>, <<a, a, f>>, <<a, a, a, f>> }
cwd   == <<a, a>>

\* what read() returns for each regular file
FileData(file) ==
    CASE file = <<f>>          -> <<"0">>
      [] file = <<a, f>>       -> <<" ", "1", "\n">>
      [] file = <<a, a, f>>    -> <<"2">>
      [] file = <<a, a, a, f>> -> <<"\t", "3", " ">>

NoEntry == << <<"ENOENT">> >>

\* the kernel's path walk: every component is looked up in a directory
RECURSIVE Walk(_, _)
Walk(comps, cur) ==
    IF cur = NoEntry THEN NoEntry
    ELSE IF comps = <<>> THEN cur
    ELSE IF cur \notin Dirs THEN NoEntry
    ELSE LET comp == Head(comps)
         IN  IF comp = <<>> \/ comp = curdir THEN Walk(Tail(comps), cur)
             ELSE IF comp = pardir
             THEN Walk(Tail(comps),
                       IF cur = <<>> THEN cur ELSE SubSeq(cur, 1, Len(cur) - 1))
             ELSE Walk(Tail(comps), Append(cur, comp))

\* the canonical path a path string names, or NoEntry
Lookup(path) ==
    IF path = <<>> THEN NoEntry
    ELSE LET w == Walk(split(path, sep),
                       IF startswith(path, <<sep>>) THEN <<>> ELSE cwd)
         IN  IF w \in Dirs \cup Files THEN w ELSE NoEntry

exists(path) == Lookup(path) # NoEntry
isfile(path) == Lookup(path) \in Files
isdir(path)  == Lookup(path) \in Dirs

\* io.open(path, "r").read()
read(path) == FileData(Lookup(path))

(***************************************************************************)
(* class FileReference                                                     *)
(***************************************************************************)
FileReference(path, strip_, bounding_path) ==
    [t |-> "ref", path |-> path, strip |-> strip_, bound |-> bounding_path,
     exc |-> ""]

Unparseable == [t |-> "raise", path |-> <<>>, strip |-> FALSE, bound |-> <<>>,
                exc |-> "Unparseable"]

\* FileReference.parse(value, bounding_path=...)
parse(value, bounding_path) ==
    IF startswith(value, <<"@">>)
    THEN FileReference(From(value, 1), FALSE, bounding_path)
    ELSE IF startswith(value, <<"-", "@">>)
    THEN FileReference(From(value, 2), TRUE, bounding_path)
    ELSE Unparseable

\* the comparison of resolve_path, line 90
OutsideBound(path, common, bound) == common # bound

\* FileReference.resolve_path(bound): Str(path) or Raise(...).  run always
\* passes command_argument[0] as the bound, so the os.getcwd() default of
\* line 83 is not taken.
resolve_path(ref, bound) ==
    IF ref.path = <<>> THEN Raise("IndexError")
    ELSE LET path1 == IF ref.path[1] = sep THEN From(ref.path, 1) ELSE ref.path
             path == normpath(join(bound, path1))
             common == commonpath(path, bound)
         IN  IF IsRaise(common) THEN common
             ELSE IF OutsideBound(path, common.s, bound) THEN Raise("Exception")
             ELSE IF ~exists(path) \/ ~isfile(path) THEN Raise("Exception")
             ELSE Str(path)

\* FileReference.target_path
target_path(ref) == resolve_path(ref, ref.bound)

\* FileReference.contents: Str(data) or Raise(...)
contents(ref) ==
    LET target == target_path(ref)
    IN  IF IsRaise(target) THEN target
        ELSE LET data == read(target.s)
             IN  Str(IF ~ref.strip THEN data ELSE strip(data))

\* a variant of the except clauses: the error is raised again
InjectFallback_Reraise(data, error) == error

\* the except clauses of _inject_file_contents, lines 217-221
InjectFallback(data, error) == data

\* HTTPResource._inject_file_contents(data, bounding_path)
RECURSIVE _inject_file_contents(_, _)
_inject_file_contents(data, bounding_path) ==
    CASE data.t = "str" ->
           LET file_ref == parse(data.s, bounding_path)
           IN  IF IsRaise(file_ref) THEN data
               ELSE IF IsRaise(target_path(file_ref))
               THEN InjectFallback(data, target_path(file_ref))
               ELSE IF IsRaise(contents(file_ref))
               THEN InjectFallback(data, contents(file_ref))
               ELSE contents(file_ref)
      [] data.t = "list" ->
           LET rs == [i \in 1..Len(data.xs) |->
                        _inject_file_contents(data.xs[i], bounding_path)]
           IN  IF AnyRaise(rs) THEN FirstRaise(rs) ELSE List(rs)
      [] data.t = "dict" ->
           LET rs == [i \in 1..Len(data.xs) |->
                        _inject_file_contents(data.xs[i][2], bounding_path)]
           IN  IF AnyRaise(rs) THEN FirstRaise(rs)
               ELSE Dict([i \in 1..Len(data.xs) |-> <<data.xs[i][1], rs[i]>>])
      [] OTHER -> data

(***************************************************************************)
(* str(), repr() and json.dumps of a value                                 *)
(***************************************************************************)
Digit(d) == CASE d = 0 -> "0" [] d = 1 -> "1" [] d = 2 -> "2" [] d = 3 -> "3"
              [] d = 4 -> "4" [] d = 5 -> "5" [] d = 6 -> "6" [] d = 7 -> "7"
              [] d = 8 -> "8" [] d = 9 -> "9"

RECURSIVE Digits(_)
Digits(n) == IF n < 10 THEN <<Digit(n)>> ELSE Digits(n \div 10) \o <<Digit(n % 10)>>

\* repr(value); the escaping of quotes inside a string's repr is left out
RECURSIVE pyrepr(_)
pyrepr(v) ==
    CASE v.t = "str"  -> <<"'">> \o v.s \o <<"'">>
      [] v.t = "num"  -> Digits(v.n)
      [] v.t = "bool" -> IF v.n = 1 THEN <<"T","r","u","e">>
                         ELSE <<"F","a","l","s","e">>
      [] v.t = "null" -> <<"N","o","n","e">>
      [] v.t = "list" ->
           <<"[">> \o joinstr(<<",", " ">>,
                              [i \in 1..Len(v.xs) |-> pyrepr(v.xs[i])]) \o <<"]">>
      [] v.t = "dict" ->
           <<"{">> \o joinstr(<<",", " ">>,
                              [i \in 1..Len(v.xs) |->
                                 <<"'">> \o v.xs[i][1] \o <<"'", ":", " ">>
                                 \o pyrepr(v.xs[i][2])]) \o <<"}">>

\* format(value, ""), which is str(value)
pystr(v) == IF v.t = "str" THEN v.s ELSE pyrepr(v)

\* the body of a JSON string literal
RECURSIVE json_escape(_)
json_escape(s) ==
    IF s = <<>> THEN <<>>
    ELSE LET c == Head(s)
             e == CASE c = "\"" -> <<"\\", "\"">>
                    [] c = "\\" -> <<"\\", "\\">>
                    [] c = "\n" -> <<"\\", "n">>
                    [] c = "\t" -> <<"\\", "t">>
                    [] c = "\r" -> <<"\\", "r">>
                    [] OTHER    -> <<c>>
         IN  e \o json_escape(Tail(s))

\* json.dumps(value, ensure_ascii=False)
RECURSIVE json_dumps(_)
json_dumps(v) ==
    CASE v.t = "str"  -> <<"\"">> \o json_escape(v.s) \o <<"\"">>
      [] v.t = "num"  -> Digits(v.n)
      [] v.t = "bool" -> IF v.n = 1 THEN <<"t","r","u","e">>
                         ELSE <<"f","a","l","s","e">>
      [] v.t = "null" -> <<"n","u","l","l">>
      [] v.t = "list" ->
           <<"[">> \o joinstr(<<",", " ">>,
                              [i \in 1..Len(v.xs) |-> json_dumps(v.xs[i])]) \o <<"]">>
      [] v.t = "dict" ->
           <<"{">> \o joinstr(<<",", " ">>,
                              [i \in 1..Len(v.xs) |->
                                 <<"\"">> \o json_escape(v.xs[i][1]) \o <<"\"", ":", " ">>
                                 \o json_dumps(v.xs[i][2])]) \o <<"}">>

(***************************************************************************)
(* str.format with keyword arguments.  Fields are plain names: the strings *)
(* of the model put no '.', '[', '!' or ':' between braces, so attribute   *)
(* lookup, indexing, conversions and format specs do not arise.            *)
(***************************************************************************)
IsBrace(c) == c = "{" \/ c = "}"
DigitChars == {"0", "1", "2", "3", "4", "5", "6", "7", "8", "9"}

\* a variant of the field lookup: an absent key renders as nothing
field_Blank(name, vals) ==
    IF HasKey(vals, name) THEN Str(pystr(Get(vals, name, Null))) ELSE Str(<<>>)

\* the value of the replacement field `name`: positional fields have no
\* argument (format is called with keyword arguments only)
field(name, vals) ==
    IF name = <<>> \/ (\A i \in 1..Len(name) : name[i] \in DigitChars)
    THEN Raise("IndexError")
    ELSE IF HasKey(vals, name) THEN Str(pystr(Get(vals, name, Null)))
    ELSE Raise("KeyError")

\* the scan of the format string from position i, with the output so far
RECURSIVE formatfrom(_, _, _, _)
formatfrom(s, i, vals, acc) ==
    IF i > Len(s) THEN Str(acc)
    ELSE IF s[i] = "{"
    THEN IF i + 1 <= Len(s) /\ s[i + 1] = "{"
         THEN formatfrom(s, i + 2, vals, Append(acc, "{"))
         ELSE IF i = Len(s) THEN Raise("ValueError")
         ELSE IF ~\E j \in (i+1)..Len(s) : IsBrace(s[j])
         THEN Raise("ValueError")
         ELSE LET j == CHOOSE k \in (i+1)..Len(s) :
                           IsBrace(s[k]) /\ \A m \in (i+1)..(k-1) : ~IsBrace(s[m])
              IN  IF s[j] = "{" THEN Raise("ValueError")
                  ELSE LET r == field(SubSeq(s, i + 1, j - 1), vals)
                       IN  IF IsRaise(r) THEN r
                           ELSE formatfrom(s, j + 1, vals, acc \o r.s)
    ELSE IF s[i] = "}"
    THEN IF i + 1 <= Len(s) /\ s[i + 1] = "}"
         THEN formatfrom(s, i + 2, vals, Append(acc, "}"))
         ELSE Raise("ValueError")
    ELSE formatfrom(s, i + 1, vals, Append(acc, s[i]))

\* a variant of format: the scan starts one character late
format_SkipFirst(s, vals) == formatfrom(s, 2, vals, <<>>)

\* data.format with the mapping as keyword arguments: Str(...) or Raise(...)
format(s, vals) == formatfrom(s, 1, vals, <<>>)

\* the dict comprehension of _interpolate: items in order, a repeated key
\* overwrites the earlier value
RECURSIVE BuildDict(_, _, _)
BuildDict(ks, vs, acc) ==
    IF ks = <<>> THEN acc
    ELSE BuildDict(Tail(ks), Tail(vs), SetItem(acc, Head(ks).s, Head(vs)))

\* HTTPResource._interpolate(data, values)
RECURSIVE _interpolate(_, _)
_interpolate(data, vals) ==
    CASE data.t = "str" -> format(data.s, vals)
      [] data.t = "list" ->
           LET rs == [i \in 1..Len(data.xs) |-> _interpolate(data.xs[i], vals)]
           IN  IF AnyRaise(rs) THEN FirstRaise(rs) ELSE List(rs)
      [] data.t = "dict" ->
           LET ks == [i \in 1..Len(data.xs) |-> format(data.xs[i][1], vals)]
               vs == [i \in 1..Len(data.xs) |-> _interpolate(data.xs[i][2], vals)]
               \* evaluation order: key 1, value 1, key 2, value 2, ...
               order == [i \in 1..(2 * Len(data.xs)) |->
                           IF i % 2 = 1 THEN ks[(i + 1) \div 2] ELSE vs[i \div 2]]
           IN  IF AnyRaise(order) THEN FirstRaise(order)
               ELSE Dict(BuildDict(ks, vs, <<>>))
      [] OTHER -> data

(***************************************************************************)
(* Names: the keys of the payload and of the environment                   *)
(***************************************************************************)
k_source       == <<"s","o","u","r","c","e">>
k_params       == <<"p","a","r","a","m","s">>
k_method       == <<"m","e","t","h","o","d">>
k_uri          == <<"u","r","i">>
k_headers      == <<"h","e","a","d","e","r","s">>
k_json         == <<"j","s","o","n">>
k_ssl_verify   == <<"s","s","l","_","v","e","r","i","f","y">>
k_ok_responses == <<"o","k","_","r","e","s","p","o","n","s","e","s">>
k_form_data    == <<"f","o","r","m","_","d","a","t","a">>

BUILD_           == <<"B","U","I","L","D","_">>
ATC_EXTERNAL_URL == <<"A","T","C","_","E","X","T","E","R","N","A","L","_","U","R","L">>
TEST             == <<"T","E","S","T">>

\* bool(value)
truthy(v) ==
    CASE v.t = "str"  -> v.s # <<>>
      [] v.t = "num"  -> v.n # 0
      [] v.t = "bool" -> v.n = 1
      [] v.t = "null" -> FALSE
      [] v.t = "list" -> v.xs # <<>>
      [] v.t = "dict" -> v.xs # <<>>

(***************************************************************************)
(* HTTPResource.cmd                                                        *)
(***************************************************************************)
\* the default of ok_responses, line 110
DefaultOkResponses == List(<<Num(200), Num(201), Num(202), Num(204)>>)

\* lines 113-119: the verify mode, Bool(...) / "unbound" / Raise(...).  In
\* the str branch the argument of write() is the local `verify`, which has
\* no value yet.
VerifyMode(ssl_verify) ==
    IF ssl_verify.t = "bool" THEN ssl_verify
    ELSE IF ssl_verify.t = "str" THEN Raise("UnboundLocalError")
    ELSE Tree("unbound", <<>>, 0, <<>>, "")

\* a variant of request_data: the form fields are never encoded
RequestData_Dropped(form_data) == Null

\* lines 121-123: request_data, None or the form fields JSON-encoded
RequestData(form_data) ==
    IF ~truthy(form_data) THEN Null
    ELSE IF form_data.t # "dict" THEN Raise("AttributeError")
    ELSE Dict([i \in 1..Len(form_data.xs) |->
                 <<form_data.xs[i][1], Str(json_dumps(form_data.xs[i][2]))>>])

\* lines 105-126: the call of requests.request that cmd makes, as the record
\* of its arguments, or the exception raised before the call
Request(data) ==
    IF ~HasKey(data.xs, k_uri) THEN Raise("KeyError")
    ELSE LET method == Get(data.xs, k_method, Str(<<"G","E","T">>))
             uri == Get(data.xs, k_uri, Null)
             headers == Get(data.xs, k_headers, Dict(<<>>))
             json_data == Get(data.xs, k_json, Null)
             ssl_verify == Get(data.xs, k_ssl_verify, Bool(TRUE))
             form_data == Get(data.xs, k_form_data, Null)
             verify == VerifyMode(ssl_verify)
             request_data == RequestData(form_data)
         IN  IF IsRaise(verify) THEN verify
             ELSE IF IsRaise(request_data) THEN request_data
             ELSE IF verify.t = "unbound" THEN Raise("UnboundLocalError")
             ELSE [method |-> method, uri |-> uri, json |-> json_data,
                   data |-> request_data, headers |-> headers,
                   verify |-> verify, t |-> "request"]

\* the body requests puts on the wire for json=..., data=...: `json` is used
\* only when `data` is empty (requests.request, called at line 125)
WireBody(req) ==
    IF truthy(req.data) THEN "form"
    ELSE IF req.json.t # "null" THEN "json"
    ELSE "none"

\* a variant of the status check: any status below 400 passes
StatusAccepted_Below400(status_code, ok_responses) == status_code < 400

\* line 131: response.status_code in ok_responses, for a container; an int
\* is never equal to a key of a JSON object
StatusAccepted(status_code, ok_responses) ==
    /\ ok_responses.t = "list"
    /\ \E i \in 1..Len(ok_responses.xs) :
           /\ ok_responses.xs[i].t = "num"
           /\ ok_responses.xs[i].n = status_code

\* lines 128-134, once the response is there: the returned pair or Raise(...)
CmdResult(data, resp) ==
    LET ok_responses == Get(data.xs, k_ok_responses, DefaultOkResponses)
    IN  IF ok_responses.t \notin {"list", "dict"} THEN Raise("TypeError")
        ELSE IF ~StatusAccepted(resp.status_code, ok_responses)
        THEN Raise("Exception")
        ELSE [t |-> "return", status_code |-> resp.status_code,
              text |-> resp.text]

(***************************************************************************)
(* json.loads of the response texts the server of the model can send, and  *)
(* dict.update with the result.  An output object is a sequence of         *)
(* <<key, JSON text of the value>> items.                                  *)
(***************************************************************************)
Bodies == { "", "{}", "{\"json\": {\"test\": 123}}",
            "{\"version\": {\"ref\": \"1\"}}", "[]", "[1]" }

json_loads(text) ==
    CASE text = "" -> [t |-> "raise", exc |-> "JSONDecodeError", items |-> <<>>]
      [] text = "{}" -> [t |-> "dict", exc |-> "", items |-> <<>>]
      [] text = "{\"json\": {\"test\": 123}}" ->
           [t |-> "dict", exc |-> "", items |-> << <<"json", "{\"test\": 123}">> >>]
      [] text = "{\"version\": {\"ref\": \"1\"}}" ->
           [t |-> "dict", exc |-> "", items |-> << <<"version", "{\"ref\": \"1\"}">> >>]
      [] text = "[]" -> [t |-> "list", exc |-> "", items |-> <<>>]
      [] text = "[1]" -> [t |-> "list", exc |-> "", items |-> <<"1">>]

\* line 183
EmptyVersion == << <<"version", "{}">> >>

\* line 186: response.update(json.loads(text)): the items or Raise(...).  A
\* list updates from key/value pairs; [1] holds none
MergeBody(resp, text) ==
    LET loaded == json_loads(text)
    IN  IF loaded.t = "raise" THEN Raise(loaded.exc)
        ELSE IF loaded.t = "list" /\ loaded.items # <<>> THEN Raise("TypeError")
        ELSE Dict(Update(resp, loaded.items))

\* lines 183-188: the object run() returns for printing, or Raise(...)
Output(env, text) ==
    IF truthy(Get(env, TEST, Bool(FALSE)))
    THEN MergeBody(EmptyVersion, text)
    ELSE Dict(EmptyVersion)

(***************************************************************************)
(* HTTPResource.run, step by step                                          *)
(***************************************************************************)
\* an exception leaves run(): traceback, exit status 1, nothing printed
Fail(at, exc) ==
    /\ pc' = "failed"
    /\ exit' = 1
    /\ raised' = <<[at |-> at, exc |-> exc]>>

\* line 162: the environment entries that become values
EnvValues(env) ==
    SelectSeq(env, LAMBDA kv : startswith(kv[1], BUILD_) \/ kv[1] = ATC_EXTERNAL_URL)

\* lines 164-166: source overridden by params
MergedParams(data) ==
    Update(Get(data.xs, k_source, Dict(<<>>)).xs,
           Get(data.xs, k_params, Dict(<<>>)).xs)

\* lines 161-169
Merge ==
    /\ pc = "merge"
    /\ params' = Dict(MergedParams(stdin))
    /\ values' = Update(EnvValues(environ), MergedParams(stdin))
    /\ pc' = "interpolate"
    /\ UNCHANGED <<stdin, environ, resource_dir, interpolated, rendered,
                   requests, response, returned, stdout, exit, raised>>

\* line 172
Interpolate ==
    /\ pc = "interpolate"
    /\ LET r == _interpolate(params, values)
       IN  IF IsRaise(r)
           THEN Fail("interpolate", r.exc) /\ UNCHANGED interpolated
           ELSE /\ interpolated' = r
                /\ pc' = "inject"
                /\ UNCHANGED <<exit, raised>>
    /\ UNCHANGED <<stdin, environ, resource_dir, params, values, rendered,
                   requests, response, returned, stdout>>

\* lines 175-178
Inject ==
    /\ pc = "inject"
    /\ LET r == _inject_file_contents(interpolated, resource_dir)
       IN  IF IsRaise(r)
           THEN Fail("inject", r.exc) /\ UNCHANGED rendered
           ELSE /\ rendered' = r
                /\ pc' = "cmd"
                /\ UNCHANGED <<exit, raised>>
    /\ UNCHANGED <<stdin, environ, resource_dir, params, values, interpolated,
                   requests, response, returned, stdout>>

\* line 180 into cmd, lines 105-126: the request goes out
Cmd ==
    /\ pc = "cmd"
    /\ LET r == Request(rendered)
       IN  IF IsRaise(r)
           THEN Fail("cmd", r.exc) /\ UNCHANGED requests
           ELSE /\ requests' = Append(requests, r)
                /\ pc' = "await"
                /\ UNCHANGED <<exit, raised>>
    /\ UNCHANGED <<stdin, environ, resource_dir, params, values, interpolated,
                   rendered, response, returned, stdout>>

\* requests.request returns the server's response
Respond(status_code, text) ==
    /\ pc = "await"
    /\ response' = <<[status_code |-> status_code, text |-> text]>>
    /\ pc' = "respond"
    /\ UNCHANGED <<stdin, environ, resource_dir, params, values, interpolated,
                   rendered, requests, returned, stdout, exit, raised>>

\* requests.request raises (no connection, timeout of the peer, ...)
RequestError ==
    /\ pc = "await"
    /\ Fail("cmd", "ConnectionError")
    /\ UNCHANGED <<stdin, environ, resource_dir, params, values, interpolated,
                   rendered, requests, response, returned, stdout>>

\* lines 128-134: the status check that ends cmd
CmdReturn ==
    /\ pc = "respond"
    /\ LET r == CmdResult(rendered, response[1])
       IN  IF IsRaise(r)
           THEN Fail("cmd", r.exc) /\ UNCHANGED returned
           ELSE /\ returned' = <<[status_code |-> r.status_code,
                                  text |-> r.text]>>
                /\ pc' = "output"
                /\ UNCHANGED <<exit, raised>>
    /\ UNCHANGED <<stdin, environ, resource_dir, params, values, interpolated,
                   rendered, requests, response, stdout>>

\* lines 182-188 and the print of line 230
Emit ==
    /\ pc = "output"
    /\ LET r == Output(environ, returned[1].text)
       IN  IF IsRaise(r)
           THEN Fail("output", r.exc) /\ UNCHANGED stdout
           ELSE /\ stdout' = <<r.xs>>
                /\ exit' = 0
                /\ pc' = "done"
                /\ UNCHANGED raised
    /\ UNCHANGED <<stdin, environ, resource_dir, params, values, interpolated,
                   rendered, requests, response, returned>>

(***************************************************************************)
(* Inputs                                                                  *)
(***************************************************************************)
MaxRefPieces   == 3   \* pieces of the path of a file reference
MaxBoundPieces == 3   \* pieces of a bounding directory
MaxFmtPieces   == 4   \* pieces of a string given to _interpolate
MaxKeyPieces   == 2   \* pieces of a mapping key given to _interpolate

\* the concatenations of at most n pieces
Strings(pieces, n) ==
    { Concat(ps) : ps \in UNION { [1..k -> pieces] : k \in 0..n } }

PathPieces == { <<sep>>, curdir, pardir, a, f }
FmtPieces  == { <<"{">>, <<"}">>, <<"b">>, <<"z">> }

\* command_argument[0]: a path string that names a directory
BoundStrings == { p \in Strings(PathPieces, MaxBoundPieces) : isdir(p) }

\* string leaves for _inject_file_contents: references and plain strings
RefLeaves ==
    { <<"@">> \o p : p \in Strings(PathPieces, MaxRefPieces) }
    \cup { <<"-", "@">> \o p : p \in Strings(PathPieces, MaxRefPieces) }
    \cup { <<"x">>, <<"-">>, <<>> }

InjectTrees ==
    { Str(l) : l \in RefLeaves }
    \cup { List(<<Num(1), Str(l)>>) : l \in RefLeaves }
    \cup { Dict(<< <<l, Str(l)>> >>) : l \in RefLeaves }
    \cup { Num(1), Bool(TRUE), Null }

InterpTrees ==
    { Str(s) : s \in Strings(FmtPieces, MaxFmtPieces) }
    \cup { List(<<Num(1), Str(s)>>) : s \in Strings(FmtPieces, MaxFmtPieces) }
    \cup { Dict(<< <<k, Str(s)>>, <<(<<"k">>), List(<<Str(s)>>)>> >>) :
             k \in Strings(FmtPieces, MaxKeyPieces),
             s \in Strings(FmtPieces, MaxKeyPieces) }
    \cup { Num(1), Bool(TRUE), Null, List(<<>>), Dict(<<>>) }

InterpValues ==
    { <<>>,
      << <<(<<"b">>), Str(<<"1">>)>> >>,
      << <<(<<"b">>), Str(<<"{">>)>>, <<(<<"k">>), Num(5)>> >> }

\* the process environment
HOME     == <<"H","O","M","E">>
BUILD_ID == BUILD_ \o <<"I","D">>
BaseEnv  == << <<HOME, Str(<<"/">>)>>, <<BUILD_ID, Str(<<"1">>)>> >>
Environs == { BaseEnv,
              Append(BaseEnv, <<TEST, Str(<<"1">>)>>),
              Append(BaseEnv, <<TEST, Str(<<>>)>>) }

Braced(name) == <<"{">> \o name \o <<"}">>

\* string leaves of the payload of a whole run
RunLeaves ==
    { <<"x">>, Braced(BUILD_ID), Braced(HOME), Braced(k_uri),
      <<"{">> \o Braced(<<"x">>) \o <<"}">>,
      <<"@">> \o f, <<"-", "@">> \o f, <<"@">> \o pardir \o <<sep>> \o f }

RunBounds == { <<sep>> \o a \o <<sep>> \o a, <<sep>> \o a }

\* nothing, or one item key: v for a v of vs
Opt(key, vs) == { <<>> } \cup { << <<key, v>> >> : v \in vs }

URI  == <<"h","t","t","p",":","/","/","h","/">>
CERT == <<"P","E","M">>

SourceItems ==
    { u \o v \o o \o j :
        u \in Opt(k_uri, {Str(URI)}),
        v \in Opt(k_ssl_verify, {Bool(FALSE), Str(CERT), Null}),
        o \in Opt(k_ok_responses, {List(<<Num(404)>>)}),
        j \in Opt(k_json, {Dict(<< <<(<<"t">>), Num(123)>> >>)}) }

ParamItems == Opt(k_form_data,
                  { Dict(<< <<(<<"k">>), Str(l)>> >>) : l \in RunLeaves })

\* json.loads(json_data): source always, params when there are any
Payloads ==
    { Dict(<< <<k_source, Dict(src)>> >>
           \o (IF par = <<>> THEN <<>> ELSE << <<k_params, Dict(par)>> >>)) :
        src \in SourceItems, par \in ParamItems }

Statuses == { 200, 204, 404, 500 }

(***************************************************************************)
(* Specifications                                                          *)
(***************************************************************************)
NotYet == Null

\* a whole run: the process starts with its payload, environment, argument
Init ==
    /\ pc = "merge"
    /\ stdin \in Payloads
    /\ environ \in Environs
    /\ resource_dir \in RunBounds
    /\ params = NotYet
    /\ values = <<>>
    /\ interpolated = NotYet
    /\ rendered = NotYet
    /\ requests = <<>>
    /\ response = <<>>
    /\ returned = <<>>
    /\ stdout = <<>>
    /\ exit = -1
    /\ raised = <<>>

Next ==
    \/ Merge
    \/ Interpolate
    \/ Inject
    \/ Cmd
    \/ \E status_code \in Statuses, text \in Bodies : Respond(status_code, text)
    \/ RequestError
    \/ CmdReturn
    \/ Emit

Spec == Init /\ [][Next]_vars

\* _inject_file_contents alone, on every tree and bounding directory
InitInject ==
    /\ pc = "inject"
    /\ stdin = NotYet
    /\ environ = <<>>
    /\ resource_dir \in BoundStrings
    /\ params = NotYet
    /\ values = <<>>
    /\ interpolated \in InjectTrees
    /\ rendered = NotYet
    /\ requests = <<>>
    /\ response = <<>>
    /\ returned = <<>>
    /\ stdout = <<>>
    /\ exit = -1
    /\ raised = <<>>

NextInject == Inject

SpecInject == InitInject /\ [][NextInject]_vars

\* _interpolate alone, on every tree and value mapping
InitInterp ==
    /\ pc = "interpolate"
    /\ stdin = NotYet
    /\ environ = <<>>
    /\ resource_dir = <<>>
    /\ params \in InterpTrees
    /\ values \in InterpValues
    /\ interpolated = NotYet
    /\ rendered = NotYet
    /\ requests = <<>>
    /\ response = <<>>
    /\ returned = <<>>
    /\ stdout = <<>>
    /\ exit = -1
    /\ raised = <<>>

NextInterp == Interpolate

SpecInterp == InitInterp /\ [][NextInterp]_vars

(***************************************************************************)
(* Vocabulary of the properties                                            *)
(***************************************************************************)
IsPrefix(p, q) == Len(p) <= Len(q) /\ SubSeq(q, 1, Len(p)) = p

\* where a path string points, component by component from the root or the
\* working directory, whether or not anything exists there
RECURSIVE Points(_, _)
Points(comps, cur) ==
    IF comps = <<>> THEN cur
    ELSE LET comp == Head(comps)
         IN  IF comp = <<>> \/ comp = curdir THEN Points(Tail(comps), cur)
             ELSE IF comp = pardir
             THEN Points(Tail(comps),
                         IF cur = <<>> THEN cur ELSE SubSeq(cur, 1, Len(cur) - 1))
             ELSE Points(Tail(comps), Append(cur, comp))

Canonical(path) ==
    Points(split(path, sep), IF startswith(path, <<sep>>) THEN <<>> ELSE cwd)

IsReference(s) == startswith(s, <<"@">>) \/ startswith(s, <<"-", "@">>)
RefPath(s) == IF startswith(s, <<"@">>) THEN From(s, 1) ELSE From(s, 2)

\* the path string a reference names under the bounding directory: one
\* leading separator of the reference is dropped, a second makes it absolute
Named(s, bound) ==
    LET p  == RefPath(s)
        p1 == IF startswith(p, <<sep>>) THEN From(p, 1) ELSE p
    IN  IF startswith(p1, <<sep>>) THEN p1 ELSE bound \o <<sep>> \o p1

\* the reference s points outside the bounding directory
Escapes(s, bound) ==
    /\ IsReference(s)
    /\ RefPath(s) # <<>>
    /\ ~IsPrefix(Canonical(bound), Canonical(Named(s, bound)))

\* a regular file lies inside the bounding directory
Inside(file, bound) == IsPrefix(Canonical(bound), file)

\* the string leaves of a tree (mapping keys are not leaves)
RECURSIVE Leaves(_)
Leaves(v) ==
    CASE v.t = "str"  -> { v.s }
      [] v.t = "list" -> UNION { Leaves(v.xs[i]) : i \in 1..Len(v.xs) }
      [] v.t = "dict" -> UNION { Leaves(v.xs[i][2]) : i \in 1..Len(v.xs) }
      [] OTHER -> {}

\* every string of a tree: leaves and mapping keys
RECURSIVE AllStrings(_)
AllStrings(v) ==
    CASE v.t = "str"  -> { v.s }
      [] v.t = "list" -> UNION { AllStrings(v.xs[i]) : i \in 1..Len(v.xs) }
      [] v.t = "dict" ->
           UNION { {v.xs[i][1]} \cup AllStrings(v.xs[i][2]) : i \in 1..Len(v.xs) }
      [] OTHER -> {}

\* the leaves of two trees of one shape, pairwise related by R
RECURSIVE SameShape(_, _, _)
SameShape(R(_, _), before, after) ==
    /\ before.t = after.t
    /\ CASE before.t = "str" -> R(before.s, after.s)
         [] before.t = "list" ->
              /\ Len(before.xs) = Len(after.xs)
              /\ \A i \in 1..Len(before.xs) :
                     SameShape(R, before.xs[i], after.xs[i])
         [] before.t = "dict" ->
              /\ Len(before.xs) = Len(after.xs)
              /\ \A i \in 1..Len(before.xs) :
                     /\ before.xs[i][1] = after.xs[i][1]
                     /\ SameShape(R, before.xs[i][2], after.xs[i][2])
         [] OTHER -> before = after

FailedAt(at) == pc = "failed" /\ raised[1].at = at
TestFlag == HasKey(environ, TEST) /\ Get(environ, TEST, Null).s # <<>>

\* line 175 has completed
Injected ==
    \/ pc \in {"cmd", "await", "respond", "output", "done"}
    \/ FailedAt("cmd")
    \/ FailedAt("output")

(***************************************************************************)
(* C2.  For every bounding directory B and every relative path p that      *)
(* stays inside B and names an existing regular file, injection replaces   *)
(* the leaf "@p" by the file's contents verbatim and the leaf "-@p" by the *)
(* contents with leading and trailing whitespace removed.                  *)
(***************************************************************************)
C2_Target(s, bound) == Lookup(bound \o <<sep>> \o RefPath(s))

C2_Applies(s, bound) ==
    /\ IsReference(s)
    /\ RefPath(s) # <<>>
    /\ ~startswith(RefPath(s), <<sep>>)
    /\ C2_Target(s, bound) \in Files
    /\ Inside(C2_Target(s, bound), bound)

C2_Expected(s, bound) ==
    IF startswith(s, <<"@">>) THEN FileData(C2_Target(s, bound))
    ELSE strip(FileData(C2_Target(s, bound)))

C2_Leaf(before, after) ==
    C2_Applies(before, resource_dir) => after = C2_Expected(before, resource_dir)

\* C2: after injection every leaf "@p" / "-@p" naming a regular file inside
\* the bounding directory holds the file's contents (stripped for "-@")
C2_InjectReadsFile ==
    Injected => SameShape(C2_Leaf, interpolated, rendered)

(***************************************************************************)
(* C3.  _inject_file_contents never fails; every string leaf of its result *)
(* is the original leaf unchanged or the contents of a regular file inside *)
(* the bounding directory; a reference that points outside the bounding    *)
(* directory is left as it was.                                            *)
(***************************************************************************)
C3_Leaf(before, after) ==
    /\ \/ after = before
       \/ \E file \in Files :
             /\ Inside(file, resource_dir)
             /\ after \in {FileData(file), strip(FileData(file))}
    /\ Escapes(before, resource_dir) => after = before

\* C3: injection never fails, a leaf of the result is the original or the
\* contents of a file inside the bounding directory, an escaping leaf is kept
C3_InjectStaysInside ==
    /\ ~FailedAt("inject")
    /\ Injected => SameShape(C3_Leaf, interpolated, rendered)

\* cmd has been entered and left (by return or by exception)
CmdLeft ==
    \/ pc \in {"output", "done"}
    \/ FailedAt("output")
    \/ (FailedAt("cmd") /\ requests = <<>>)
    \/ (FailedAt("cmd") /\ response # <<>>)

(***************************************************************************)
(* C1.  Given the response status s and the accepted set S (the            *)
(* ok_responses of the rendered parameters, {200,201,202,204} without      *)
(* them), cmd returns (status, body) if and only if s is in S and fails    *)
(* otherwise; a run ends with exit status zero only if s was in S.         *)
(***************************************************************************)
C1_Accepted ==
    IF HasKey(rendered.xs, k_ok_responses)
    THEN LET ok == Get(rendered.xs, k_ok_responses, Null)
         IN  { ok.xs[i].n : i \in 1..Len(ok.xs) }
    ELSE {200, 201, 202, 204}

\* C1: cmd returns (status, body) iff the status is in the accepted set, fails
\* otherwise, and exit status zero implies an accepted status
C1_StatusDecides ==
    /\ returned # <<>> =>
          /\ response # <<>>
          /\ returned[1] = response[1]
          /\ response[1].status_code \in C1_Accepted
    /\ (response # <<>> /\ pc # "respond") =>
          IF response[1].status_code \in C1_Accepted
          THEN returned # <<>> /\ ~FailedAt("cmd")
          ELSE returned = <<>> /\ FailedAt("cmd")
    /\ exit = 0 => response # <<>> /\ response[1].status_code \in C1_Accepted

\* a 404 that ok_responses [404] accepts ends the run with exit status zero
C1_Witness ==
    /\ exit = 0
    /\ response[1].status_code = 404
    /\ HasKey(rendered.xs, k_ok_responses)

(***************************************************************************)
(* C4, as stated.  A reference that points outside the bounding directory  *)
(* is fatal: the run ends with a non-zero exit status, issues no request   *)
(* and prints no output object.                                            *)
(***************************************************************************)
C4_HasEscape ==
    /\ pc \notin {"merge", "interpolate"}
    /\ ~FailedAt("interpolate")
    /\ \E s \in Leaves(interpolated) : Escapes(s, resource_dir)

\* C4 as stated: an escaping reference means no request, no output and a
\* non-zero exit status
C4_TraversalFatal ==
    C4_HasEscape =>
       /\ requests = <<>>
       /\ stdout = <<>>
       /\ exit # 0

(***************************************************************************)
(* C4, amended.  A reference that points outside the bounding directory is *)
(* not fatal: file injection never aborts the run, the run goes on to cmd, *)
(* and cmd issues the request whenever uri is present, ssl_verify is a     *)
(* boolean or absent and form_data is a mapping or absent.                 *)
(***************************************************************************)
C4_RequestWellFormed ==
    /\ HasKey(rendered.xs, k_uri)
    /\ Get(rendered.xs, k_ssl_verify, Bool(TRUE)).t = "bool"
    /\ Get(rendered.xs, k_form_data, Dict(<<>>)).t = "dict"

\* C4 amended: an escaping reference never fails injection, and a well-formed
\* request is issued
C4_TraversalNotFatal ==
    C4_HasEscape =>
       /\ ~FailedAt("inject")
       /\ pc # "inject" => Injected
       /\ (pc \notin {"inject", "cmd"} /\ C4_RequestWellFormed) =>
              Len(requests) = 1

\* a run with an escaping reference that ended with exit status zero
C4_Witness ==
    /\ C4_HasEscape
    /\ exit = 0
    /\ Len(requests) = 1
    /\ stdout # <<>>

(***************************************************************************)
(* C5, as stated.  When json and form_data are both supplied non-empty,    *)
(* the request that is sent carries the JSON body.                         *)
(***************************************************************************)
C5_Both ==
    /\ requests # <<>>
    /\ truthy(Get(rendered.xs, k_json, Null))
    /\ truthy(Get(rendered.xs, k_form_data, Null))

\* C5 as stated: with json and form_data both non-empty the request carries
\* the JSON body
C5_JsonWins == C5_Both => WireBody(requests[1]) = "json"

(***************************************************************************)
(* C5, amended.  When json and form_data are both supplied non-empty, the  *)
(* request that is sent carries the form-encoded fields, one per key of    *)
(* form_data, and not the JSON body.                                       *)
(***************************************************************************)
\* C5 amended: with json and form_data both non-empty the request carries the
\* form-encoded fields
C5_FormWins ==
    C5_Both =>
       /\ WireBody(requests[1]) = "form"
       /\ requests[1].data.t = "dict"
       /\ Len(requests[1].data.xs) = Len(Get(rendered.xs, k_form_data, Null).xs)

C5_Witness == C5_Both /\ pc = "await"

(***************************************************************************)
(* C6.  For a boolean ssl_verify and for a string ssl_verify alike, cmd    *)
(* goes on to issue the request; a boolean is the verify mode itself.      *)
(***************************************************************************)
\* C6: with uri present and ssl_verify a boolean or a string, cmd issues the
\* request, a boolean being the verify mode itself
C6_VerifyThenRequest ==
    LET ssl_verify == Get(rendered.xs, k_ssl_verify, Bool(TRUE))
    IN  (/\ CmdLeft
         /\ HasKey(rendered.xs, k_uri)
         /\ ssl_verify.t \in {"bool", "str"}) =>
           /\ Len(requests) = 1
           /\ ssl_verify.t = "bool" => requests[1].verify = ssl_verify

(***************************************************************************)
(* C7.  In every successful run the "version" field of the output object   *)
(* is the empty object; without the test flag the output is exactly        *)
(* {"version": {}}.                                                        *)
(***************************************************************************)
\* C7: a successful run prints an object whose version is {}, and exactly
\* {"version": {}} without the test flag
C7_VersionEmpty ==
    exit = 0 =>
       /\ Len(stdout) = 1
       /\ Get(stdout[1], "version", "") = "{}"
       /\ ~TestFlag => stdout[1] = EmptyVersion

(***************************************************************************)
(* C8.  With the test flag set and an accepted status, a response body     *)
(* that is not valid JSON does not make the run fail.                      *)
(***************************************************************************)
C8_NotJson == { "" }

\* C8: with the test flag, once cmd returned a body that is not JSON, the run
\* does not fail
C8_MergeBestEffort ==
    (returned # <<>> /\ TestFlag /\ returned[1].text \in C8_NotJson) =>
       pc # "failed"

(***************************************************************************)
(* C10.  The request is issued at most once and only after interpolation   *)
(* and then file injection have completed; a placeholder whose key is not  *)
(* in the value mapping fails the run with no request and no output; a     *)
(* successful run has issued exactly one request.                          *)
(***************************************************************************)
\* s[i..j] is a replacement field: an opening brace that no brace precedes,
\* a name without braces, a closing brace
C10_Field(s, i, j) ==
    /\ s[i] = "{"
    /\ i = 1 \/ s[i - 1] # "{"
    /\ j > i + 1
    /\ s[j] = "}"
    /\ \A k \in (i + 1)..(j - 1) : s[k] # "{" /\ s[k] # "}"

\* environment subset, overridden by source, overridden by params
C10_Keys ==
    { environ[i][1] : i \in { n \in 1..Len(environ) :
          \/ startswith(environ[n][1], <<"B","U","I","L","D","_">>)
          \/ environ[n][1] = ATC_EXTERNAL_URL } }
    \cup { params.xs[i][1] : i \in 1..Len(params.xs) }

C10_AbsentKey ==
    /\ pc # "merge"
    /\ \E s \in AllStrings(params) : \E i \in 1..Len(s), j \in 1..Len(s) :
          /\ C10_Field(s, i, j)
          /\ SubSeq(s, i + 1, j - 1) \notin C10_Keys

\* C10: at most one request, only after interpolation then injection; an
\* absent placeholder key fails the run with no request and no output; exit
\* status zero implies exactly one request
C10_OneRequestAfterRendering ==
    /\ Len(requests) <= 1
    /\ requests # <<>> =>
          /\ pc \in {"await", "respond", "output", "done", "failed"}
          /\ pc = "failed" => raised[1].at \in {"cmd", "output"}
          /\ interpolated # NotYet
          /\ rendered # NotYet
    /\ rendered # NotYet => interpolated # NotYet
    /\ C10_AbsentKey =>
          \/ pc = "interpolate"
          \/ /\ FailedAt("interpolate")
             /\ exit = 1
             /\ requests = <<>>
             /\ stdout = <<>>
    /\ exit = 0 => Len(requests) = 1 /\ stdout # <<>>
    /\ pc = "failed" => exit = 1 /\ stdout = <<>>

\* a run that met a placeholder with an absent key
C10_Witness == C10_AbsentKey /\ FailedAt("interpolate")

(***************************************************************************)
(* C9, as stated.  _interpolate is the identity on a tree none of whose    *)
(* strings references a named placeholder: it succeeds and returns the     *)
(* tree, whatever the value mapping.                                       *)
(***************************************************************************)
\* s holds a named placeholder: a brace pair around a non-empty name
C9_NamesPlaceholder(s) ==
    \E i \in 1..Len(s), j \in 1..Len(s) :
       /\ s[i] = "{"
       /\ j > i + 1
       /\ s[j] = "}"
       /\ \A k \in (i + 1)..(j - 1) : s[k] # "{" /\ s[k] # "}"

\* C9 as stated: a tree without named placeholders is returned unchanged
C9_IdentityWithoutPlaceholders ==
    (/\ pc # "interpolate"
     /\ \A s \in AllStrings(params) : ~C9_NamesPlaceholder(s)) =>
       /\ pc = "inject"
       /\ interpolated = params

(***************************************************************************)
(* C9, amended.  _interpolate is the identity on a tree none of whose      *)
(* strings (leaves and mapping keys) contains a brace character: it        *)
(* succeeds and returns the tree, whatever the value mapping.              *)
(***************************************************************************)
C9_BraceFree(s) == \A i \in 1..Len(s) : s[i] # "{" /\ s[i] # "}"

\* C9 amended: a tree without brace characters is returned unchanged
C9_IdentityWithoutBraces ==
    (/\ pc # "interpolate"
     /\ \A s \in AllStrings(params) : C9_BraceFree(s)) =>
       /\ pc = "inject"
       /\ interpolated = params

\* a mapping with brace-free strings of two characters or more went through
C9_Witness ==
    /\ pc = "inject"
    /\ params.t = "dict"
    /\ \A s \in AllStrings(params) : C9_BraceFree(s)
    /\ \E s \in AllStrings(params) : Len(s) >= 2
    /\ values # <<>>
    /\ interpolated = params

=============================================================================
